---- MODULE Spec2Model ----
(***************************************************************************)
(* Conway's Game of Life on the GPU (src/src/main.rs): the compute shader  *)
(* that advances the cell state, the two ping-pong storage buffers with    *)
(* their two bind groups, and the winit event-loop closure that records    *)
(* one compute pass and one render pass per timer tick.                    *)
(***************************************************************************)
EXTENDS Integers, Sequences, FiniteSets, TLC

\* ---------------------------------------------------------------- constants
GRID_SIZE == 32
WORKGROUP_SIZE == 8

\* ------------------------------------------------------------------- bounds
\* Number of timer ticks (ResumeTimeReached events) a behaviour may contain.
MaxTicks == 3
\* Largest grid width and height of the exhaustive single-dispatch check.
StepMaxDim == 3
\* Grid width of the interleaved-invocation check (its grid has two rows).
RaceW == 2

VARIABLES
    uniform_buffer,      \* "Grid Uniforms": <<grid.x, grid.y>>
    workgroup_size,      \* the tile size spliced into the simulation shader
    cell_state_array,    \* the CPU-side array the seed is drawn into
    cell_state_storage,  \* [0..1 -> buffer], "Cell State A" and "Cell State B"
    step,                \* the closure's `step`
    control_flow,        \* winit's ControlFlow: "Poll", "WaitUntil", "Exit"
    pc,                  \* position of the event-loop closure
    encoder,             \* commands recorded into this tick's CommandEncoder
    queue,               \* every command buffer ever given to queue.submit
    pre_storage,         \* both buffers as they were before the last dispatch ran
    drawn,               \* per instance, the cell state the last draw read
    presented,           \* number of frame.present() calls
    ticks,               \* number of ResumeTimeReached events handled
    wait_calls,          \* number of control_flow.set_wait_until calls
    closed,              \* whether a CloseRequested event has been handled
    acquire_failed,      \* whether get_current_texture has returned Err
    inv                  \* per-invocation progress of an interleaved dispatch

vars == <<uniform_buffer, workgroup_size, cell_state_array, cell_state_storage,
          step, control_flow, pc, encoder, queue, pre_storage, drawn,
          presented, ticks, wait_calls, closed, acquire_failed, inv>>

\* ------------------------------------------------------ WGSL integer scalars
\* WGSL `%` on i32 truncates toward zero: the result has the dividend's sign.
Rem(a, b) == IF a >= 0 THEN a % b ELSE -((-a) % b)

\* WGSL u32(e) of an i32: the identity on 0 .. 2^31-1. A negative value becomes
\* 2^32 + e, which is above every buffer length; it is represented here by the
\* largest integer the checker has (every index of the model is far below it).
ToU32(v) == IF v >= 0 THEN v ELSE 2147483647

\* WGSL vec2i(cell.xy) of a vec3u: the identity below 2^31.
ToVec2i(gid) == <<gid[1], gid[2]>>

\* ------------------------------------------------------- simulation shader
cell_index_clamped(grid, cell) ==
    LET cx == IF cell[1] < 0 THEN 0 ELSE IF cell[1] >= grid[1] THEN grid[1] - 1 ELSE cell[1]
        cy == IF cell[2] < 0 THEN 0 ELSE IF cell[2] >= grid[2] THEN grid[2] - 1 ELSE cell[2]
    IN ToU32(cy * grid[1] + cx)

cell_index(grid, cell) ==
    ToU32(Rem(cell[2] + grid[2], grid[2]) * grid[1] + Rem(cell[1] + grid[1], grid[1]))

cell_active(grid, cell_state_in, x, y) == cell_state_in[cell_index(grid, <<x, y>>)]

active_neighbors_with_self(grid, cell_state_in, cell) ==
    ToU32(cell_active(grid, cell_state_in, cell[1] + 1, cell[2] + 1) +
          cell_active(grid, cell_state_in, cell[1] + 1, cell[2]) +
          cell_active(grid, cell_state_in, cell[1] + 1, cell[2] - 1) +
          cell_active(grid, cell_state_in, cell[1],     cell[2] - 1) +
          cell_active(grid, cell_state_in, cell[1] - 1, cell[2] - 1) +
          cell_active(grid, cell_state_in, cell[1] - 1, cell[2]) +
          cell_active(grid, cell_state_in, cell[1] - 1, cell[2] + 1) +
          cell_active(grid, cell_state_in, cell[1],     cell[2] + 1) +
          cell_active(grid, cell_state_in, cell[1],     cell[2]))

\* The sum computeMain forms before its switch, in u32 arithmetic.
active_neighbors(grid, cell_state_in, cell) ==
    ToU32(cell_active(grid, cell_state_in, cell[1] + 1, cell[2] + 1) +
          cell_active(grid, cell_state_in, cell[1] + 1, cell[2]) +
          cell_active(grid, cell_state_in, cell[1] + 1, cell[2] - 1) +
          cell_active(grid, cell_state_in, cell[1],     cell[2] - 1) +
          cell_active(grid, cell_state_in, cell[1] - 1, cell[2] - 1) +
          cell_active(grid, cell_state_in, cell[1] - 1, cell[2]) +
          cell_active(grid, cell_state_in, cell[1] - 1, cell[2] + 1) +
          cell_active(grid, cell_state_in, cell[1],     cell[2] + 1))

rule_survive_on_3_only(n, self) ==
    CASE n = 2 -> 0
      [] n = 3 -> self
      [] OTHER -> 0

rule_stores_count(n, self) ==
    CASE n = 2 -> self
      [] n = 3 -> 1
      [] OTHER -> n

\* The value the switch stores into cell_state_out[i].
rule(n, self) ==
    CASE n = 2 -> self
      [] n = 3 -> 1
      [] OTHER -> 0

\* The index i at which the invocation with global_invocation_id gid stores.
computeMain_index(grid, gid) == cell_index(grid, ToVec2i(gid))

\* The value that invocation stores, given the contents of cell_state_in.
computeMain_value(grid, cell_state_in, gid) ==
    rule(active_neighbors(grid, cell_state_in, ToVec2i(gid)),
         cell_state_in[computeMain_index(grid, gid)])

\* ------------------------------------------------------------- bind groups
bind_group_same_output ==
    [g \in {0, 1} |-> IF g = 0 THEN [binding1 |-> 0, binding2 |-> 1]
                               ELSE [binding1 |-> 1, binding2 |-> 1]]

bind_group_both_A ==
    [g \in {0, 1} |-> [binding1 |-> 0, binding2 |-> 1]]

bind_group_swapped ==
    [g \in {0, 1} |-> IF g = 0 THEN [binding1 |-> 1, binding2 |-> 0]
                               ELSE [binding1 |-> 0, binding2 |-> 1]]

\* bind_group[g]: binding 1 is the buffer the shaders read (cell_state_in in
\* the compute stage, cell_state in the vertex stage), binding 2 the buffer
\* the compute stage writes (cell_state_out). Values index cell_state_storage.
bind_group ==
    [g \in {0, 1} |-> IF g = 0 THEN [binding1 |-> 0, binding2 |-> 1]
                               ELSE [binding1 |-> 1, binding2 |-> 0]]

\* ------------------------------------------------------------ the device
\* dispatch_workgroups(x, y, z) recorded with bind group `g`; count = <<x, y, z>>.
DispatchCmd(g, count) ==
    [op |-> "dispatch", group |-> g, workgroups |-> count, instances |-> 0]

\* draw(0..vs, 0..is) recorded with bind group `g`; `is` is the instance count.
DrawCmd(g, is) ==
    [op |-> "draw", group |-> g, workgroups |-> <<0, 0, 0>>, instances |-> is]

\* global_invocation_id of invocation number k of a dispatch nx wide.
InvocationId(nx, k) == <<k % nx, k \div nx, 0>>

\* A whole dispatch of count[1] x count[2] x count[3] workgroups, each of
\* ws x ws x 1 invocations (@workgroup_size(ws, ws)), with bind group g: every
\* invocation reads the buffer at binding 1 as it is before the dispatch and
\* stores once into the buffer at binding 2. For output index i the invocation
\* numbered i is looked at first, then every other one; an index no invocation
\* stores to keeps its value.
Dispatch(grid, ws, bufs, g, count) ==
    LET nx == count[1] * ws
        n == nx * count[2] * ws * count[3]
        src == bind_group[g].binding1
        dst == bind_group[g].binding2
        StoresTo(k, i) == computeMain_index(grid, InvocationId(nx, k)) = i
        Stored(k) == computeMain_value(grid, bufs[src], InvocationId(nx, k))
    IN [bufs EXCEPT ![dst] =
           [i \in DOMAIN bufs[dst] |->
               IF i < n /\ StoresTo(i, i) THEN Stored(i)
               ELSE IF \E k \in 0..(n - 1) : StoresTo(k, i)
                    THEN Stored(CHOOSE k \in 0..(n - 1) : StoresTo(k, i))
                    ELSE bufs[dst][i]]]

Draw_reads_output(bufs, g, instances) ==
    [k \in 0..(instances - 1) |-> bufs[bind_group[g].binding2][k]]

\* vertexMain reads cell_state[input.instance] for every instance of the draw.
Draw(bufs, g, instances) ==
    [k \in 0..(instances - 1) |-> bufs[bind_group[g].binding1][k]]

\* One command of a submitted command buffer, applied to the device state.
ExecCommand(grid, ws, cmd, gpu) ==
    IF cmd.op = "dispatch"
    THEN [gpu EXCEPT !.storage = Dispatch(grid, ws, gpu.storage, cmd.group, cmd.workgroups),
                     !.pre = gpu.storage]
    ELSE [gpu EXCEPT !.drawn = Draw(gpu.storage, cmd.group, cmd.instances)]

RECURSIVE ExecCommands(_, _, _, _)
\* A submitted command buffer runs its commands in recorded order.
ExecCommands(grid, ws, cmds, gpu) ==
    IF cmds = << >> THEN gpu
    ELSE ExecCommands(grid, ws, Tail(cmds), ExecCommand(grid, ws, Head(cmds), gpu))

\* ------------------------------------------------------- seeding (run)
\* Number of cells of the program's grid.
NumCells == GRID_SIZE * GRID_SIZE

\* uniform_array = vec![GRID_SIZE as f32, GRID_SIZE as f32]
uniform_array == <<GRID_SIZE, GRID_SIZE>>

\* Index of the cell in column x, row y of the program's grid, with x and y
\* taken modulo the grid size (used to write down seeds and expected pictures).
At(x, y) == (y % GRID_SIZE) * GRID_SIZE + (x % GRID_SIZE)

\* The array holding 1 at the indices in `live` and 0 elsewhere.
Picture(live) == [i \in 0..(NumCells - 1) |-> IF i \in live THEN 1 ELSE 0]

\* Three consecutive live cells in row y, starting at column x.
HBlinker(x, y) == {At(x, y), At(x + 1, y), At(x + 2, y)}
\* The vertical three-cell line with the same centre as HBlinker(x, y).
VBlinker(x, y) == {At(x + 1, y - 1), At(x + 1, y), At(x + 1, y + 1)}
\* A 2x2 block with its corner at column x, row y.
Block(x, y) == {At(x, y), At(x + 1, y), At(x, y + 1), At(x + 1, y + 1)}
Glider(x, y) == {At(x + 1, y), At(x + 2, y + 1), At(x, y + 2), At(x + 1, y + 2), At(x + 2, y + 2)}

\* Outcomes of the Bernoulli(0.6) draw that the general specification starts
\* from: every 0/1 array is a possible outcome, these are the ones explored.
SomeSeeds ==
    { Picture({}),
      Picture(0..(NumCells - 1)),
      Picture(HBlinker(31, 0)),
      Picture(Block(31, 31)),
      Picture(Glider(30, 30)),
      Picture(Glider(3, 4) \cup HBlinker(10, 10) \cup Block(20, 7)),
      [i \in 0..(NumCells - 1) |-> IF ((i * i + 3 * i) % 5) < 3 THEN 1 ELSE 0],
      [i \in 0..(NumCells - 1) |->
          IF ((i * i * 7 + 13 * i + 5 * (i \div GRID_SIZE)) % 17) < 10 THEN 1 ELSE 0],
      [i \in 0..(NumCells - 1) |-> IF ((i * i * 3 + 11 * i + 2) % 13) < 8 THEN 1 ELSE 0] }

BlinkerSeeds == { Picture(HBlinker(x, y)) : x \in 0..(GRID_SIZE - 1), y \in 0..(GRID_SIZE - 1) }
BlockSeeds == { Picture(Block(x, y)) : x \in 0..(GRID_SIZE - 1), y \in 0..(GRID_SIZE - 1) }

\* What "Cell State B" may hold before anything is written to it: wgpu
\* zero-fills a new buffer; the other fill stands for contents not to rely on.
Fills == {0, 1}

\* The state when event_loop.run is entered: buffer 0 holds the seed.
InitLoop(seeds, fills) ==
    /\ uniform_buffer = uniform_array
    /\ workgroup_size = WORKGROUP_SIZE
    /\ cell_state_array \in seeds
    /\ \E f \in fills :
          cell_state_storage = [b \in {0, 1} |->
              IF b = 0 THEN cell_state_array ELSE [i \in 0..(NumCells - 1) |-> f]]
    /\ step = 0
    /\ control_flow = "Poll"
    /\ pc = "start"
    /\ encoder = << >>
    /\ queue = << >>
    /\ pre_storage = << >>
    /\ drawn = << >>
    /\ presented = 0
    /\ ticks = 0
    /\ wait_calls = 0
    /\ closed = FALSE
    /\ acquire_failed = FALSE
    /\ inv = << >>

Init == InitLoop(SomeSeeds, Fills)

\* ------------------------------------------------ the event-loop closure
StartInit_advances ==
    /\ pc = "start"
    /\ control_flow' = "WaitUntil"
    /\ wait_calls' = wait_calls + 1
    /\ pc' = "idle"
    /\ cell_state_storage' =
          Dispatch(uniform_buffer, workgroup_size, cell_state_storage, step,
                   <<GRID_SIZE \div WORKGROUP_SIZE, GRID_SIZE \div WORKGROUP_SIZE, 1>>)
    /\ UNCHANGED <<uniform_buffer, workgroup_size, cell_state_array,
                   step, encoder, queue, pre_storage, drawn, presented,
                   ticks, closed,
                   acquire_failed, inv>>

\* Event::NewEvents(StartCause::Init): the first event winit delivers.
StartInit ==
    /\ pc = "start"
    /\ control_flow' = "WaitUntil"
    /\ wait_calls' = wait_calls + 1
    /\ pc' = "idle"
    /\ UNCHANGED <<uniform_buffer, workgroup_size, cell_state_array, cell_state_storage,
                   step, encoder, queue, pre_storage, drawn, presented,
                   ticks, closed,
                   acquire_failed, inv>>

\* Event::NewEvents(StartCause::ResumeTimeReached): winit delivers it when the
\* loop waits (WaitUntil) and the deadline has passed. The arm first re-arms
\* the timer, then creates the command encoder.
ResumeTimeReached ==
    /\ pc = "idle"
    /\ control_flow = "WaitUntil"
    /\ ticks < MaxTicks
    /\ control_flow' = "WaitUntil"
    /\ wait_calls' = wait_calls + 1
    /\ ticks' = ticks + 1
    /\ encoder' = << >>
    /\ pc' = "encoding"
    /\ UNCHANGED <<uniform_buffer, workgroup_size, cell_state_array, cell_state_storage,
                   step, queue, pre_storage, drawn, presented, closed,
                   acquire_failed, inv>>

ComputePass_rounds_up ==
    /\ pc = "encoding"
    /\ LET workgroup_count == GRID_SIZE \div WORKGROUP_SIZE + 1
       IN encoder' = Append(encoder,
                            DispatchCmd(step, <<workgroup_count, workgroup_count, 1>>))
    /\ pc' = "compute_recorded"
    /\ UNCHANGED <<uniform_buffer, workgroup_size, cell_state_array, cell_state_storage,
                   step, control_flow, queue, pre_storage, drawn, presented,
                   ticks, wait_calls, closed,
                   acquire_failed, inv>>

\* begin_compute_pass .. drop(compute_pass): one dispatch recorded with
\* bind_group[step] and (GRID_SIZE / WORKGROUP_SIZE)^2 workgroups.
ComputePass ==
    /\ pc = "encoding"
    /\ LET workgroup_count == GRID_SIZE \div WORKGROUP_SIZE
       IN encoder' = Append(encoder,
                            DispatchCmd(step, <<workgroup_count, workgroup_count, 1>>))
    /\ pc' = "compute_recorded"
    /\ UNCHANGED <<uniform_buffer, workgroup_size, cell_state_array, cell_state_storage,
                   step, control_flow, queue, pre_storage, drawn, presented,
                   ticks, wait_calls, closed,
                   acquire_failed, inv>>

next_step_unchanged(s) == s

next_step_mod3(s) == (s + 1) % 3

\* step = (step + 1) % 2
next_step(s) == (s + 1) % 2

IncrementStep ==
    /\ pc = "compute_recorded"
    /\ step' = next_step(step)
    /\ pc' = "stepped"
    /\ UNCHANGED <<uniform_buffer, workgroup_size, cell_state_array, cell_state_storage,
                   control_flow, encoder, queue, pre_storage, drawn,
                   presented, ticks, wait_calls, closed,
                   acquire_failed, inv>>

\* surface.get_current_texture() returns Ok(frame).
AcquireTexture ==
    /\ pc = "stepped"
    /\ pc' = "acquired"
    /\ UNCHANGED <<uniform_buffer, workgroup_size, cell_state_array, cell_state_storage,
                   step, control_flow, encoder, queue, pre_storage, drawn,
                   presented, ticks, wait_calls, closed,
                   acquire_failed, inv>>

AcquireFails_skips_frame ==
    /\ pc = "stepped"
    /\ pc' = "idle"
    /\ encoder' = << >>
    /\ acquire_failed' = TRUE
    /\ UNCHANGED <<uniform_buffer, workgroup_size, cell_state_array, cell_state_storage,
                   step, control_flow, queue, pre_storage, drawn, presented,
                   ticks, wait_calls, closed, inv>>

\* surface.get_current_texture() returns Err: expect() panics, the closure
\* never returns and the encoder is dropped with what it recorded.
AcquireFails ==
    /\ pc = "stepped"
    /\ pc' = "panicked"
    /\ encoder' = << >>
    /\ acquire_failed' = TRUE
    /\ UNCHANGED <<uniform_buffer, workgroup_size, cell_state_array, cell_state_storage,
                   step, control_flow, queue, pre_storage, drawn, presented,
                   ticks, wait_calls, closed, inv>>

RenderPass_before_dispatch ==
    /\ pc = "acquired"
    /\ encoder' = <<DrawCmd(step, GRID_SIZE * GRID_SIZE)>> \o encoder
    /\ pc' = "render_recorded"
    /\ UNCHANGED <<uniform_buffer, workgroup_size, cell_state_array, cell_state_storage,
                   step, control_flow, queue, pre_storage, drawn, presented,
                   ticks, wait_calls, closed,
                   acquire_failed, inv>>

\* begin_render_pass .. drop(pass): one instanced draw recorded with
\* bind_group[step], GRID_SIZE * GRID_SIZE instances.
RenderPass ==
    /\ pc = "acquired"
    /\ encoder' = Append(encoder, DrawCmd(step, GRID_SIZE * GRID_SIZE))
    /\ pc' = "render_recorded"
    /\ UNCHANGED <<uniform_buffer, workgroup_size, cell_state_array, cell_state_storage,
                   step, control_flow, queue, pre_storage, drawn, presented,
                   ticks, wait_calls, closed,
                   acquire_failed, inv>>

\* queue.submit(Some(encoder.finish())). The device runs submissions in
\* submission order, each one's commands in recorded order, and nothing but a
\* submitted command reads or writes the storage buffers: the effects of the
\* command buffer are therefore applied where it is submitted.
Submit ==
    /\ pc = "render_recorded"
    /\ queue' = Append(queue, encoder)
    /\ \E r \in {ExecCommands(uniform_buffer, workgroup_size, encoder,
                              [storage |-> cell_state_storage, drawn |-> drawn,
                               pre |-> pre_storage])} :
          /\ cell_state_storage' = r.storage
          /\ drawn' = r.drawn
          /\ pre_storage' = r.pre
    /\ encoder' = << >>
    /\ pc' = "submitted"
    /\ UNCHANGED <<uniform_buffer, workgroup_size, cell_state_array, step, control_flow,
                   presented, ticks, wait_calls, closed,
                   acquire_failed, inv>>

Present_exits ==
    /\ pc = "submitted"
    /\ presented' = presented + 1
    /\ control_flow' = "Exit"
    /\ pc' = "idle"
    /\ UNCHANGED <<uniform_buffer, workgroup_size, cell_state_array, cell_state_storage,
                   step, encoder, queue, pre_storage, drawn,
                   ticks, wait_calls, closed,
                   acquire_failed, inv>>

Present_schedules_next ==
    /\ pc = "submitted"
    /\ presented' = presented + 1
    /\ control_flow' = "WaitUntil"
    /\ wait_calls' = wait_calls + 1
    /\ pc' = "idle"
    /\ UNCHANGED <<uniform_buffer, workgroup_size, cell_state_array, cell_state_storage,
                   step, encoder, queue, pre_storage, drawn,
                   ticks, closed,
                   acquire_failed, inv>>

\* frame.present(): the last statement of the arm.
Present ==
    /\ pc = "submitted"
    /\ presented' = presented + 1
    /\ pc' = "idle"
    /\ UNCHANGED <<uniform_buffer, workgroup_size, cell_state_array, cell_state_storage,
                   step, control_flow, encoder, queue, pre_storage, drawn,
                   ticks, wait_calls, closed,
                   acquire_failed, inv>>

close_ignored(cf) == cf

\* The CloseRequested arm: *control_flow = ControlFlow::Exit.
close_requested(cf) == "Exit"

\* Event::WindowEvent { event: WindowEvent::CloseRequested, .. }
CloseRequested ==
    /\ pc = "idle"
    /\ control_flow # "Exit"
    /\ control_flow' = close_requested(control_flow)
    /\ closed' = TRUE
    /\ UNCHANGED <<uniform_buffer, workgroup_size, cell_state_array, cell_state_storage,
                   step, pc, encoder, queue, pre_storage, drawn, presented,
                   ticks, wait_calls, acquire_failed, inv>>

\* Every other event (the `_ => {}` arm), LoopDestroyed after Exit included.
OtherEvent ==
    /\ pc = "idle"
    /\ UNCHANGED vars

Next ==
    \/ StartInit
    \/ ResumeTimeReached
    \/ ComputePass
    \/ IncrementStep
    \/ AcquireTexture
    \/ AcquireFails
    \/ RenderPass
    \/ Submit
    \/ Present
    \/ CloseRequested
    \/ OtherEvent

Spec == Init /\ [][Next]_vars

\* The same program started from every horizontal blinker / every 2x2 block.
InitBlinker == InitLoop(BlinkerSeeds, {0})
SpecBlinker == InitBlinker /\ [][Next]_vars
InitBlock == InitLoop(BlockSeeds, {0})
SpecBlock == InitBlock /\ [][Next]_vars

\* ------------------------------------- one dispatch on every small grid
\* All 0/1 arrays of n cells.
Configurations(n) == [0..(n - 1) -> {0, 1}]

\* A command buffer holding one dispatch that covers a w x h grid with tiles
\* of one invocation, about to be submitted; the buffer bind group g reads
\* holds an arbitrary configuration, the other one a fill.
InitStep ==
    \E w \in 1..StepMaxDim, h \in 1..StepMaxDim, g \in {0, 1}, f \in Fills :
        /\ uniform_buffer = <<w, h>>
        /\ workgroup_size = 1
        /\ cell_state_array \in Configurations(w * h)
        /\ cell_state_storage = [b \in {0, 1} |->
               IF b = g THEN cell_state_array ELSE [i \in 0..(w * h - 1) |-> f]]
        /\ step = g
        /\ control_flow = "WaitUntil"
        /\ pc = "render_recorded"
        /\ encoder = <<DispatchCmd(g, <<w, h, 1>>)>>
        /\ queue = << >>
        /\ pre_storage = << >>
        /\ drawn = << >>
        /\ presented = 0
        /\ ticks = 1
        /\ wait_calls = 2
        /\ closed = FALSE
        /\ acquire_failed = FALSE
        /\ inv = << >>

NextStep == Submit

SpecStep == InitStep /\ [][NextStep]_vars

\* ------------------------- one dispatch, its invocations interleaved
\* A dispatch in progress on a RaceW x 2 grid: every invocation first forms
\* active_neighbors (its eight loads), later runs the switch (the load of
\* cell_state_in[i] in case 2, and the store); between the two steps of one
\* invocation any steps of the others may happen.
InitRace ==
    \E g \in {0, 1}, f \in Fills :
        /\ uniform_buffer = <<RaceW, 2>>
        /\ workgroup_size = 1
        /\ cell_state_array \in Configurations(RaceW * 2)
        /\ cell_state_storage = [b \in {0, 1} |->
               IF b = g THEN cell_state_array ELSE [i \in 0..(RaceW * 2 - 1) |-> f]]
        /\ step = g
        /\ control_flow = "WaitUntil"
        /\ pc = "dispatching"
        /\ encoder = << >>
        /\ queue = <<  <<DispatchCmd(g, <<RaceW, 2, 1>>)>>  >>
        /\ pre_storage = cell_state_storage
        /\ drawn = << >>
        /\ presented = 0
        /\ ticks = 1
        /\ wait_calls = 2
        /\ closed = FALSE
        /\ acquire_failed = FALSE
        /\ inv = [k \in 0..(RaceW * 2 - 1) |-> [pc |-> "start", n |-> 0]]

\* Lines 205-212 of invocation k: the eight cell_active loads and their sum.
InvocationSum(k) ==
    LET cmd == queue[1][1]
        nx == cmd.workgroups[1] * workgroup_size
        src == bind_group[cmd.group].binding1
    IN /\ inv[k].pc = "start"
       /\ inv' = [inv EXCEPT ![k] =
              [pc |-> "summed",
               n |-> active_neighbors(uniform_buffer, cell_state_storage[src],
                                      ToVec2i(InvocationId(nx, k)))]]
       /\ UNCHANGED <<uniform_buffer, workgroup_size, cell_state_array,
                      cell_state_storage, step, control_flow, pc, encoder, queue,
                      pre_storage, drawn, presented, ticks, wait_calls, closed,
                      acquire_failed>>

InvocationStore_in_place(k) ==
    LET cmd == queue[1][1]
        nx == cmd.workgroups[1] * workgroup_size
        src == bind_group[cmd.group].binding1
        i == computeMain_index(uniform_buffer, InvocationId(nx, k))
    IN /\ inv[k].pc = "summed"
       /\ cell_state_storage' =
              [cell_state_storage EXCEPT ![src][i] = rule(inv[k].n, cell_state_storage[src][i])]
       /\ inv' = [inv EXCEPT ![k].pc = "done"]
       /\ UNCHANGED <<uniform_buffer, workgroup_size, cell_state_array, step,
                      control_flow, pc, encoder, queue, pre_storage, drawn, presented,
                      ticks, wait_calls, closed,
                      acquire_failed>>

\* Lines 214-227 of invocation k: cell_index, the switch and its store.
InvocationStore(k) ==
    LET cmd == queue[1][1]
        nx == cmd.workgroups[1] * workgroup_size
        src == bind_group[cmd.group].binding1
        dst == bind_group[cmd.group].binding2
        i == computeMain_index(uniform_buffer, InvocationId(nx, k))
    IN /\ inv[k].pc = "summed"
       /\ cell_state_storage' =
              [cell_state_storage EXCEPT ![dst][i] = rule(inv[k].n, cell_state_storage[src][i])]
       /\ inv' = [inv EXCEPT ![k].pc = "done"]
       /\ UNCHANGED <<uniform_buffer, workgroup_size, cell_state_array, step,
                      control_flow, pc, encoder, queue, pre_storage, drawn, presented,
                      ticks, wait_calls, closed,
                      acquire_failed>>

RaceSum == \E k \in DOMAIN inv : InvocationSum(k)
RaceStore == \E k \in DOMAIN inv : InvocationStore(k)

NextRace == RaceSum \/ RaceStore

SpecRace == InitRace /\ [][NextRace]_vars

\* =================================================================== claims
\* Index of the cell in column x, row y of a w x h torus, x and y being any
\* integers (the modulo here is the mathematical one, never negative).
TorusIndex(w, h, x, y) == ((y % h) * w) + (x % w)

\* Sum of configuration I over the eight torus neighbours of cell (x, y).
NeighbourSum(I, w, h, x, y) ==
    I[TorusIndex(w, h, x - 1, y - 1)] + I[TorusIndex(w, h, x, y - 1)] +
    I[TorusIndex(w, h, x + 1, y - 1)] + I[TorusIndex(w, h, x - 1, y)] +
    I[TorusIndex(w, h, x + 1, y)]     + I[TorusIndex(w, h, x - 1, y + 1)] +
    I[TorusIndex(w, h, x, y + 1)]     + I[TorusIndex(w, h, x + 1, y + 1)]

\* The buffers the single dispatch of the small-grid specifications reads and writes.
StepInput == cell_state_array
StepOutput == cell_state_storage[1 - step]

\* C1: after one transition dispatch on input configuration I, the output
\* buffer holds at index y*width+x: I[y*width+x] if the 8-neighbour torus sum
\* of I around (x,y) is 2, the value 1 if it is 3, and 0 for every other sum.
C1_TransitionRule ==
    pc = "submitted" =>
        LET w == uniform_buffer[1]
            h == uniform_buffer[2]
        IN \A x \in 0..(w - 1), y \in 0..(h - 1) :
              LET sum == NeighbourSum(StepInput, w, h, x, y)
              IN StepOutput[y * w + x] =
                     IF sum = 2 THEN StepInput[y * w + x]
                     ELSE IF sum = 3 THEN 1 ELSE 0

\* A dispatch on a 3x3 grid has run where a live cell with sum 2 stayed live
\* and a dead cell with sum 3 was born.
C1_Witness ==
    /\ pc = "submitted"
    /\ uniform_buffer = <<3, 3>>
    /\ \E x1 \in 0..2, y1 \in 0..2, x2 \in 0..2, y2 \in 0..2 :
          /\ NeighbourSum(StepInput, 3, 3, x1, y1) = 2
          /\ StepInput[y1 * 3 + x1] = 1
          /\ StepOutput[y1 * 3 + x1] = 1
          /\ NeighbourSum(StepInput, 3, 3, x2, y2) = 3
          /\ StepInput[y2 * 3 + x2] = 0
          /\ StepOutput[y2 * 3 + x2] = 1

\* The textbook automaton on one array of the program's grid: a cell is alive
\* in the next generation iff it has exactly three live neighbours, or it is
\* alive and has exactly two.
Offsets == {<<dx, dy>> \in {-1, 0, 1} \X {-1, 0, 1} : dx # 0 \/ dy # 0}

LiveNeighbours(cfg, x, y) ==
    Cardinality({o \in Offsets :
                    cfg[TorusIndex(GRID_SIZE, GRID_SIZE, x + o[1], y + o[2])] = 1})

LifeStep(cfg) ==
    [i \in 0..(NumCells - 1) |->
        LET alive == cfg[i] = 1
            n == LiveNeighbours(cfg, i % GRID_SIZE, i \div GRID_SIZE)
        IN IF n = 3 \/ (alive /\ n = 2) THEN 1 ELSE 0]

RECURSIVE LifeAfter(_, _)
\* The reference automaton run n generations from cfg.
LifeAfter(cfg, n) ==
    IF n = 0 THEN cfg
    ELSE CHOOSE next \in {LifeStep(LifeAfter(cfg, n - 1))} : TRUE

\* C2: after n >= 1 ticks the configuration the render stage of the n-th tick
\* read equals the Game of Life rule applied n times to the seed of buffer 0,
\* as the single-array reference automaton computes it.
C2_RefinesLife ==
    Len(queue) >= 1 => drawn = LifeAfter(cell_state_array, Len(queue))

\* Three ticks have run from a seed that keeps changing, and the third frame
\* shows the third generation.
C2_Witness ==
    /\ Len(queue) = 3
    /\ pc = "idle"
    /\ drawn = LifeAfter(cell_state_array, 3)
    /\ drawn # cell_state_array
    /\ drawn # LifeAfter(cell_state_array, 2)
    /\ drawn # LifeAfter(cell_state_array, 1)

\* The bind group of the dispatch of the most recent submission, and the
\* buffers that dispatch read and wrote.
LastDispatch == queue[Len(queue)][1]
LastRead == bind_group[LastDispatch.group].binding1
LastWritten == bind_group[LastDispatch.group].binding2

\* C3: in every tick the buffer bound for reading by the render pass is the
\* buffer that tick's dispatch wrote, the frame shows that buffer, and between
\* ticks parity (step) selects the most recently written buffer.
C3_ParityConsistency ==
    /\ \A n \in 1..Len(queue) :
          /\ Len(queue[n]) = 2
          /\ queue[n][1].op = "dispatch"
          /\ queue[n][2].op = "draw"
          /\ bind_group[queue[n][2].group].binding1 = bind_group[queue[n][1].group].binding2
    /\ Len(queue) >= 1 => drawn = cell_state_storage[LastWritten]
    /\ (Len(queue) >= 1 /\ pc \in {"submitted", "idle"}) =>
          bind_group[step].binding1 = LastWritten

\* Two ticks have run: the second frame was read from buffer 0, which the
\* second dispatch overwrote (it no longer holds the seed).
C3_Witness ==
    /\ Len(queue) = 2
    /\ pc = "idle"
    /\ step = 0
    /\ LastWritten = 0
    /\ drawn = cell_state_storage[0]
    /\ drawn # cell_state_array

\* C4: after any transition dispatch every cell of the buffer that was bound
\* as input has the value it had before the dispatch; only the buffer bound
\* as output (and nothing else the shader can see) may have changed.
C4_InputUntouched ==
    Len(queue) >= 1 =>
        /\ cell_state_storage[LastRead] = pre_storage[LastRead]
        /\ uniform_buffer = uniform_array

\* A dispatch has run that changed its output buffer while its input buffer,
\* which holds live cells, is as before.
C4_Witness ==
    /\ Len(queue) = 2
    /\ cell_state_storage[LastRead] = pre_storage[LastRead]
    /\ cell_state_storage[LastWritten] # pre_storage[LastWritten]
    /\ \E i \in 0..(NumCells - 1) : cell_state_storage[LastRead][i] = 1

\* The dispatch of the interleaving specification.
RaceCmd == queue[1][1]
RaceCell(k) == InvocationId(RaceCmd.workgroups[1] * workgroup_size, k)

\* C5: whatever the order and interleaving of the invocations' loads and
\* stores, no invocation observes a value another invocation of the dispatch
\* wrote (its sum is the sum over the input as it was when the dispatch
\* began), and every cell stored so far holds what the dispatch run as one
\* step stores there: the output is the same for every interleaving.
C5_OrderIndependent ==
    pc = "dispatching" =>
        LET w == uniform_buffer[1]
            h == uniform_buffer[2]
            whole == Dispatch(uniform_buffer, workgroup_size, pre_storage,
                              RaceCmd.group, RaceCmd.workgroups)
        IN /\ cell_state_storage[RaceCmd.group] = cell_state_array
           /\ \A k \in DOMAIN inv :
                 /\ inv[k].pc # "start" =>
                       inv[k].n = NeighbourSum(cell_state_array, w, h,
                                               RaceCell(k)[1], RaceCell(k)[2])
                 /\ inv[k].pc = "done" =>
                       cell_state_storage[1 - RaceCmd.group][k] =
                           whole[1 - RaceCmd.group][k]

\* Invocation 0 has stored a value that differs from its input cell while
\* invocation 1, a neighbour, has not yet loaded anything.
C5_Witness ==
    /\ pc = "dispatching"
    /\ inv[0].pc = "done"
    /\ inv[1].pc = "start"
    /\ cell_state_storage[1 - RaceCmd.group][0] # cell_state_array[0]
    /\ pre_storage[1 - RaceCmd.group][0] = cell_state_array[0]

\* C6: for every in-range cell (x,y) and every offset dx,dy in {-1,0,1},
\* cell_index(x+dx, y+dy) is the index of the cell at ((x+dx) mod width,
\* (y+dy) mod height), within 0..N-1; a cell in column 0 counts the cell in
\* column width-1 as a neighbour and vice versa, likewise rows 0 and height-1.
C6_ToroidalWrap ==
    LET w == uniform_buffer[1]
        h == uniform_buffer[2]
        Only(i) == [j \in 0..(w * h - 1) |-> IF j = i THEN 1 ELSE 0]
    IN pc \in {"render_recorded", "submitted"} =>
        /\ \A x \in 0..(w - 1), y \in 0..(h - 1), dx \in {-1, 0, 1}, dy \in {-1, 0, 1} :
              /\ cell_index(uniform_buffer, <<x + dx, y + dy>>)
                    = TorusIndex(w, h, x + dx, y + dy)
              /\ cell_index(uniform_buffer, <<x + dx, y + dy>>) \in 0..(w * h - 1)
        /\ \A y \in 0..(h - 1) :
              /\ active_neighbors(uniform_buffer, Only(y * w + (w - 1)), <<0, y>>) >= 1
              /\ active_neighbors(uniform_buffer, Only(y * w), <<w - 1, y>>) >= 1
        /\ \A x \in 0..(w - 1) :
              /\ active_neighbors(uniform_buffer, Only((h - 1) * w + x), <<x, 0>>) >= 1
              /\ active_neighbors(uniform_buffer, Only(x), <<x, h - 1>>) >= 1

\* On a 3x3 grid whose only live cells are the three of column 2, a dispatch
\* has run and the dead cell in column 0, row 1 was born: its three live
\* neighbours are all reached across the edge.
C6_Witness ==
    /\ pc = "submitted"
    /\ uniform_buffer = <<3, 3>>
    /\ cell_state_array = [j \in 0..8 |-> IF j \in {2, 5, 8} THEN 1 ELSE 0]
    /\ StepOutput[3] = 1

\* The vertical three-cell line through the centre of the horizontal blinker
\* that `seed` consists of: the centre is the live cell whose left and right
\* neighbours are live.
TurnedBlinker(seed) ==
    LET c == CHOOSE i \in 0..(NumCells - 1) :
                 /\ seed[i] = 1
                 /\ seed[At((i % GRID_SIZE) - 1, i \div GRID_SIZE)] = 1
                 /\ seed[At((i % GRID_SIZE) + 1, i \div GRID_SIZE)] = 1
        x == c % GRID_SIZE
        y == c \div GRID_SIZE
    IN Picture({At(x, y - 1), At(x, y), At(x, y + 1)})

\* C7: from a seed whose only live cells are three consecutive cells of one
\* row, at any placement on the torus, the frame of the first tick is the
\* vertical three-cell line through the same centre and the frame of the
\* second tick is the seed again (and so on alternately).
C7_Blinker ==
    Len(queue) >= 1 =>
        drawn = IF Len(queue) % 2 = 1 THEN TurnedBlinker(cell_state_array)
                ELSE cell_state_array

\* Two ticks have run from the blinker that occupies columns 31, 0 and 1 of
\* row 0 (it straddles the left/right edge, its turned form the top/bottom
\* edge) and the frame shows the seed again.
C7_Witness ==
    /\ Len(queue) = 2
    /\ cell_state_array = Picture(HBlinker(GRID_SIZE - 1, 0))
    /\ pre_storage[1] = Picture(VBlinker(GRID_SIZE - 1, 0))
    /\ drawn = cell_state_array

\* C8: from a seed whose only live cells form a 2x2 block, after any number
\* of ticks the frame is the seed, and so is the buffer that step selects,
\* whichever of the two it is.
C8_Block ==
    Len(queue) >= 1 =>
        /\ drawn = cell_state_array
        /\ pc \in {"submitted", "idle"} =>
              cell_state_storage[bind_group[step].binding1] = cell_state_array

\* Three ticks have run from the block that wraps around the corner of the
\* grid; the configuration is now held by buffer 1 and is still the seed.
C8_Witness ==
    /\ Len(queue) = 3
    /\ pc = "idle"
    /\ step = 1
    /\ cell_state_array = Picture(Block(GRID_SIZE - 1, GRID_SIZE - 1))
    /\ cell_state_storage[1] = cell_state_array
    /\ drawn = cell_state_array

\* C9: once a CloseRequested event has been handled no further tick runs: no
\* step records a dispatch or a draw, flips step, submits, presents or runs
\* anything on the device; and no step at all, the close included, takes a
\* submission back: the queue only ever grows at its end.
C9_NoTickAfterClose ==
    [][ /\ closed =>
             /\ ticks' = ticks
             /\ encoder' = encoder
             /\ step' = step
             /\ queue' = queue
             /\ presented' = presented
             /\ cell_state_storage' = cell_state_storage
             /\ drawn' = drawn
             /\ pc' = pc
             /\ closed'
        /\ Len(queue') >= Len(queue)
        /\ SubSeq(queue', 1, Len(queue)) = queue ]_vars

\* The window was closed after two ticks; both submissions are still there.
C9_Witness ==
    /\ closed
    /\ control_flow = "Exit"
    /\ pc = "idle"
    /\ ticks = 2
    /\ Len(queue) = 2
    /\ presented = 2

\* C10: once acquiring the presentation image has failed the closure is dead
\* (panicked): the tick was neither retried nor skipped, what it recorded is
\* dropped and was never submitted (one submission fewer than ticks, its
\* dispatch has not run), nothing was presented for it, and this stays so.
C10_AcquireFailureFatal ==
    acquire_failed =>
        /\ pc = "panicked"
        /\ encoder = << >>
        /\ Len(queue) = ticks - 1
        /\ presented = ticks - 1
        /\ ticks >= 1

\* The second tick failed to acquire its image: step was flipped twice, one
\* command buffer was ever submitted, and buffer 0 still holds the seed that
\* the second tick's dispatch would have overwritten.
C10_Witness ==
    /\ acquire_failed
    /\ ticks = 2
    /\ step = 0
    /\ Len(queue) = 1
    /\ cell_state_storage[0] = cell_state_array
    /\ \E i \in 0..(NumCells - 1) : cell_state_array[i] = 1

\* Every command recorded so far: those of the submitted command buffers and
\* those in the encoder of the tick under way.
Recorded ==
    UNION {{queue[n][j] : j \in 1..Len(queue[n])} : n \in 1..Len(queue)} \cup
    {encoder[j] : j \in 1..Len(encoder)}
RecordedDispatches == {c \in Recorded : c.op = "dispatch"}

\* C11: every transition dispatch a tick records is recorded with bind group
\* 0 or 1, and bind group p binds buffer p for reading (binding 1) and buffer
\* 1 - p for writing (binding 2): the buffer a dispatch reads is never the
\* buffer it writes.
C11_InputOutputDistinct ==
    \A c \in RecordedDispatches :
        /\ c.group \in {0, 1}
        /\ bind_group[c.group].binding1 = c.group
        /\ bind_group[c.group].binding2 = 1 - c.group
        /\ bind_group[c.group].binding1 # bind_group[c.group].binding2

\* Dispatches with both bind groups have been recorded: two submitted, and
\* the third tick's is in the encoder.
C11_Witness ==
    /\ Len(queue) = 2
    /\ queue[1][1].group = 0
    /\ queue[2][1].group = 1
    /\ pc = "compute_recorded"
    /\ encoder = <<DispatchCmd(0, <<GRID_SIZE \div WORKGROUP_SIZE, GRID_SIZE \div WORKGROUP_SIZE, 1>>)>>

\* C12: step is 0 or 1 and is 0 until the first tick; it has been toggled
\* once for every tick, the tick under way included as soon as its dispatch
\* is recorded and the toggle done. The dispatch of a tick carries the parity
\* from before the toggle and its draw the parity from after it; and no step
\* of the program other than the toggle between the two changes step.
C12_ParityTogglesOncePerTick ==
    /\ [](/\ step \in {0, 1}
          /\ step = (IF pc \in {"encoding", "compute_recorded"}
                     THEN ticks - 1 ELSE ticks) % 2
          /\ pc = "compute_recorded" =>
                 /\ Len(encoder) = 1
                 /\ encoder[1].op = "dispatch" /\ encoder[1].group = step
          /\ pc \in {"stepped", "acquired"} =>
                 /\ Len(encoder) = 1
                 /\ encoder[1].op = "dispatch" /\ encoder[1].group = 1 - step
          /\ pc = "render_recorded" =>
                 /\ Len(encoder) = 2
                 /\ encoder[1].op = "dispatch" /\ encoder[1].group = 1 - step
                 /\ encoder[2].op = "draw" /\ encoder[2].group = step
          /\ \A n \in 1..Len(queue) :
                 /\ queue[n][1].group = (n - 1) % 2
                 /\ queue[n][2].group = n % 2)
    /\ [][step' # step =>
             /\ pc = "compute_recorded" /\ pc' = "stepped"
             /\ step' = 1 - step
             /\ ticks' = ticks
             /\ encoder' = encoder]_vars

\* The second tick has recorded its dispatch with parity 1 and toggled the
\* parity back to 0; its render pass is not recorded yet.
C12_Witness ==
    /\ ticks = 2
    /\ pc = "stepped"
    /\ step = 0
    /\ encoder = <<DispatchCmd(1, <<GRID_SIZE \div WORKGROUP_SIZE, GRID_SIZE \div WORKGROUP_SIZE, 1>>)>>
    /\ queue[1][2].group = 1

\* The ops of a command sequence, in recorded order.
Ops(cmds) == [j \in 1..Len(cmds) |-> cmds[j].op]

\* What the frame of the last submission must show: the output buffer of that
\* submission's dispatch, computed from the buffers as they were before it.
LastDispatchOutput ==
    Dispatch(uniform_buffer, workgroup_size, pre_storage, LastDispatch.group,
             LastDispatch.workgroups)[LastWritten]

\* C13 as stated: every tick, once its handler has ended, has one submitted
\* command sequence of one dispatch followed by one draw and one presented
\* image.
C13_EveryTickSubmitsOnce ==
    pc \in {"idle", "panicked"} =>
        /\ Len(queue) = ticks
        /\ presented = ticks
        /\ \A n \in 1..Len(queue) : Ops(queue[n]) = <<"dispatch", "draw">>

\* C13, amended: a tick records one dispatch and then, once its image is
\* acquired, one draw, into one encoder; it submits that sequence once and
\* presents once, after the submission; the frame a submission draws is the
\* output of that submission's dispatch. A tick whose image acquisition fails
\* has recorded only its dispatch, and submits and presents nothing.
C13_TickSubmitsDispatchThenDraw ==
    /\ \A n \in 1..Len(queue) : Ops(queue[n]) = <<"dispatch", "draw">>
    /\ pc = "start" => ticks = 0 /\ encoder = << >>
    /\ pc = "idle" => encoder = << >>
    /\ pc = "encoding" => encoder = << >>
    /\ pc \in {"compute_recorded", "stepped", "acquired"} => Ops(encoder) = <<"dispatch">>
    /\ pc = "render_recorded" => Ops(encoder) = <<"dispatch", "draw">>
    /\ pc \in {"submitted", "panicked"} => encoder = << >>
    /\ Len(queue) = (IF pc \in {"start", "idle", "submitted"} THEN ticks ELSE ticks - 1)
    /\ presented = (IF pc \in {"start", "idle"} THEN ticks ELSE ticks - 1)
    /\ presented <= Len(queue)
    /\ Len(queue) >= 1 => drawn = LastDispatchOutput

\* The second tick has submitted and not yet presented; its dispatch changed
\* its output buffer and the frame shows the new contents.
C13_Witness ==
    /\ pc = "submitted"
    /\ ticks = 2
    /\ Len(queue) = 2
    /\ presented = 1
    /\ drawn = cell_state_storage[LastWritten]
    /\ drawn # pre_storage[LastWritten]

\* C14: every dispatch the program records runs as many invocations as the
\* grid has cells, GRID_SIZE of them along each axis (workgroup count times
\* tile size is the grid size), none with a coordinate outside the grid, and
\* the indices they store to are all of 0 .. N-1: N invocations storing to N
\* different indices, so each index is stored to exactly once.
C14_ExactCover ==
    \A c \in RecordedDispatches :
        LET nx == c.workgroups[1] * workgroup_size
            ny == c.workgroups[2] * workgroup_size
            n == nx * ny * c.workgroups[3]
        IN /\ nx = uniform_buffer[1]
           /\ ny = uniform_buffer[2]
           /\ c.workgroups[3] = 1
           /\ n = NumCells
           /\ \A k \in 0..(n - 1) :
                  /\ InvocationId(nx, k)[1] < uniform_buffer[1]
                  /\ InvocationId(nx, k)[2] < uniform_buffer[2]
           /\ {computeMain_index(uniform_buffer, InvocationId(nx, k)) : k \in 0..(n - 1)}
                  = 0..(NumCells - 1)

\* A dispatch of 4 x 4 workgroups of 8 x 8 invocations has run on the 32 x 32
\* grid and has changed its output buffer.
C14_Witness ==
    /\ Len(queue) = 1
    /\ LastDispatch.workgroups = <<4, 4, 1>>
    /\ workgroup_size = 8
    /\ uniform_buffer = <<32, 32>>
    /\ cell_state_storage[LastWritten] # pre_storage[LastWritten]

\* C15 as stated: on a tick the next tick is scheduled after that tick's
\* presentation, so the timer has never been set more often than once at
\* startup and once for every image presented.
C15_SchedulingIsLast ==
    wait_calls <= 1 + presented

\* C15, amended: on a tick, scheduling the next tick is the first step of the
\* tick. The timer is set once at startup and once as each tick begins, when
\* nothing of that tick has been recorded, flipped, submitted or presented;
\* recording the dispatch, the parity flip, the render pass, the submission
\* and the presentation of the tick all come after it and do not set it.
C15_SchedulingIsFirst ==
    /\ [](wait_calls = (IF pc = "start" THEN 0 ELSE 1 + ticks))
    /\ [][wait_calls' # wait_calls =>
             /\ wait_calls' = wait_calls + 1
             /\ control_flow' = "WaitUntil"
             /\ \/ pc = "start" /\ pc' = "idle" /\ ticks' = 0
                \/ /\ pc = "idle" /\ pc' = "encoding"
                   /\ ticks' = ticks + 1
                   /\ encoder' = << >>
                   /\ step' = step
                   /\ Len(queue') = ticks
                   /\ presented' = ticks
                   /\ cell_state_storage' = cell_state_storage]_vars

\* The second tick has set the timer for the third and has recorded nothing
\* yet: only the first tick's work is submitted and presented.
C15_Witness ==
    /\ pc = "encoding"
    /\ ticks = 2
    /\ wait_calls = 3
    /\ encoder = << >>
    /\ Len(queue) = 1
    /\ presented = 1
    /\ step = 1

\* Whether the invocations of dispatch c store to every index of a buffer.
WritesAll(c) ==
    LET nx == c.workgroups[1] * workgroup_size
        n == nx * c.workgroups[2] * workgroup_size * c.workgroups[3]
    IN {computeMain_index(uniform_buffer, InvocationId(nx, k)) : k \in 0..(n - 1)}
           = 0..(NumCells - 1)

RECURSIVE NoReadBeforeWrite(_, _)
\* Whether no command of cmds, run in order, reads buffer 1 before a dispatch
\* has stored to all of it; `written` says whether that has happened already.
NoReadBeforeWrite(cmds, written) ==
    IF cmds = << >> THEN TRUE
    ELSE LET c == Head(cmds)
         IN /\ bind_group[c.group].binding1 = 1 => written
            /\ NoReadBeforeWrite(Tail(cmds),
                   written \/ (c.op = "dispatch" /\ bind_group[c.group].binding2 = 1
                                 /\ WritesAll(c)))

RECURSIVE Flatten(_)
\* The commands of a sequence of command buffers, in execution order.
Flatten(bufs) == IF bufs = << >> THEN << >> ELSE Head(bufs) \o Flatten(Tail(bufs))

RECURSIVE Replay(_, _)
\* The device state after running the command buffers `subs` from `gpu`.
Replay(subs, gpu) ==
    IF subs = << >> THEN gpu
    ELSE LET next == CHOOSE r \in {ExecCommands(uniform_buffer, workgroup_size,
                                                Head(subs), gpu)} : TRUE
         IN Replay(Tail(subs), next)

\* The device state the submissions made so far produce when buffer 1 starts
\* out holding a value no cell ever has, in every cell.
ReplayedFromGarbage ==
    Replay(queue, [storage |-> [b \in {0, 1} |->
                                   IF b = 0 THEN cell_state_array
                                   ELSE [i \in 0..(NumCells - 1) |-> 7]],
                   drawn |-> << >>, pre |-> << >>])

\* C16: no submitted dispatch or draw reads buffer 1 before a dispatch has
\* stored to every cell of it, the commands of the tick under way included
\* were they submitted; and once a tick has been submitted, both buffers and
\* the frame are what the same submissions produce from any other initial
\* contents of buffer 1.
C16_UnseededNeverReadFirst ==
    /\ NoReadBeforeWrite(Flatten(queue) \o encoder, FALSE)
    /\ Len(queue) >= 1 =>
          /\ cell_state_storage = ReplayedFromGarbage.storage
          /\ drawn = ReplayedFromGarbage.drawn

\* Buffer 1 started out full of ones and the seed has no live cell: after the
\* first tick buffer 1, and the frame read from it, show no live cell.
C16_Witness ==
    /\ Len(queue) = 1
    /\ \A i \in 0..(NumCells - 1) : pre_storage[1][i] = 1
    /\ \A i \in 0..(NumCells - 1) : cell_state_array[i] = 0
    /\ \A i \in 0..(NumCells - 1) : cell_state_storage[1][i] = 0
    /\ drawn = cell_state_storage[1]

\* C17: a step of the program changes the storage buffers only by running a
\* submitted command buffer, and then the buffers are exactly what that
\* command buffer's dispatch makes of them: its draw changes no cell. The Init
\* event records and submits nothing and leaves buffers and step alone; so do
\* recording a render pass, presenting, a close request and any other event.
C17_OnlyDispatchWrites ==
    [][ /\ cell_state_storage' # cell_state_storage =>
              pc = "render_recorded" /\ pc' = "submitted"
        /\ (pc = "render_recorded" /\ pc' = "submitted") =>
              /\ encoder[1].op = "dispatch"
              /\ cell_state_storage' =
                    Dispatch(uniform_buffer, workgroup_size, cell_state_storage,
                             encoder[1].group, encoder[1].workgroups)
              /\ step' = step
        /\ pc = "start" =>
              /\ cell_state_storage' = cell_state_storage
              /\ step' = step
              /\ encoder' = encoder /\ queue' = queue
        /\ (pc \in {"acquired", "submitted"} \/ (pc = "idle" /\ pc' = "idle")) =>
              /\ cell_state_storage' = cell_state_storage
              /\ step' = step ]_vars

\* The window was closed after the first tick: buffer 0 still holds the seed
\* and buffer 1 what the first dispatch stored, which differs from what it
\* held before.
C17_Witness ==
    /\ closed
    /\ Len(queue) = 1
    /\ step = 1
    /\ cell_state_storage[0] = cell_state_array
    /\ cell_state_storage[1] = drawn
    /\ cell_state_storage[1] # pre_storage[1]

\* The tick loop has ended: winit was told to exit, or the closure panicked.
LoopEnded == control_flow = "Exit" \/ pc = "panicked"

\* C18 as stated: the loop has ended exactly when a close request has been
\* handled.
C18_OnlyCloseEnds ==
    LoopEnded <=> closed

\* C18, amended: the loop has ended exactly when a close request has been
\* handled or acquiring a tick's image has failed, and it is one of these two
\* that ends it; once ended no tick begins, and until then the next tick can
\* begin whenever the closure is between events.
C18_CloseOrAcquireFailureEnds ==
    /\ [](/\ LoopEnded <=> (closed \/ acquire_failed)
          /\ LoopEnded => ~ENABLED ResumeTimeReached
          /\ (~LoopEnded /\ pc = "idle" /\ ticks < MaxTicks) => ENABLED ResumeTimeReached)
    /\ [][(LoopEnded' /\ ~LoopEnded) =>
             \/ pc = "idle" /\ closed' /\ ~closed /\ control_flow' = "Exit"
             \/ pc = "stepped" /\ acquire_failed' /\ ~acquire_failed /\ pc' = "panicked"]_vars

\* The first tick failed to acquire its image: the loop has ended although
\* no close request was ever handled.
C18_Witness ==
    /\ pc = "panicked"
    /\ ~closed
    /\ control_flow = "WaitUntil"
    /\ ticks = 1
    /\ Len(queue) = 0

\* C19: every cell of the seed and of buffer 0, which first holds the seed
\* and later what dispatches store, is 0 or 1; and once a dispatch has run,
\* so is every cell of buffer 1 and every cell state a draw has read.
C19_CellsAreBits ==
    /\ \A i \in 0..(NumCells - 1) :
          /\ cell_state_array[i] \in {0, 1}
          /\ cell_state_storage[0][i] \in {0, 1}
    /\ Len(queue) >= 1 =>
          \A i \in 0..(NumCells - 1) :
              /\ cell_state_storage[1][i] \in {0, 1}
              /\ drawn[i] \in {0, 1}

\* Three dispatches have run, buffer 0 no longer holds the seed, and each
\* buffer holds both live and dead cells.
C19_Witness ==
    /\ Len(queue) = 3
    /\ cell_state_storage[0] # cell_state_array
    /\ \A b \in {0, 1} :
          /\ \E i \in 0..(NumCells - 1) : cell_state_storage[b][i] = 1
          /\ \E i \in 0..(NumCells - 1) : cell_state_storage[b][i] = 0

====
